---- MODULE Spec2Model ----
(***************************************************************************)
(* The tools of src/tools.                                                 *)
(*                                                                         *)
(* The robot tool of src/tools/rider_pi_tool.py: the action table, the     *)
(* single-action dispatch (_execute_single_action, _send_mcp_command), the *)
(* response wait (_wait_for_response) and the sequence runner              *)
(* (_execute_sequence), together with the Discord channel they talk to.    *)
(*                                                                         *)
(* Time is counted in ticks of half a second, so that time.sleep(1.5) is   *)
(* three ticks.  A message id is the position of the message on the        *)
(* channel (Discord ids grow with the time of posting).                    *)
(*                                                                         *)
(* The voice message tool of src/tools/send_voice_message.py: the check of *)
(* the text, the voice settings, the text-to-speech request, the size      *)
(* check, the DM channel and the upload.  A text is a sequence of runs of  *)
(* one character, a voice setting is counted in hundredths.                *)
(*                                                                         *)
(* The heartbeat tool of src/tools/send_heartbeat.py: the parts of the     *)
(* message, the Spotify and weather lookups and the send.                  *)
(***************************************************************************)
EXTENDS Integers, Sequences, FiniteSets, TLC

\* ------------------------------------------------------------------ bounds
\* seconds of MCP_COMMAND_TIMEOUT in the environment (the default is 60)
MaxTimeoutS == 2
\* ticks one HTTP request may take before it returns
MaxReqDur == 2
\* frames other parties put on the channel during one call
MaxEnvFrames == 1
\* frames of unrelated traffic during one call, in the page specification
MaxNoise == 11
\* steps in a sequence
MaxSeqLen == 3
\* how far beyond the ends of its range a height parameter is tried
MaxOver == 1

\* ------------------------------------------------------- program constants
TicksPerSecond == 2
\* time.sleep(1.5)
POLL_INTERVAL == 3
\* params={"limit": 10, ...}
PAGE_LIMIT == 10

None == <<>>
Some(v) == <<v>>
NoRid == -2
\* a request id of another caller
ForeignRid == -1

Max(a, b) == IF a >= b THEN a ELSE b
Min(a, b) == IF a <= b THEN a ELSE b

\* ------------------------------------------------------------- ACTION_MAP
NoArgs == [height |-> None, roll |-> None, enabled |-> None, period |-> None]

ActionNames ==
  << "glueckliches_wackeln", "auf_und_ab_wackeln", "vor_und_zurueck_rollen",
     "achten_fahren", "kreis_drehen", "happy_dance", "adjust_height",
     "adjust_roll", "balance_mode", "periodic_squat", "periodic_shake",
     "reset", "test_connection" >>

Registered == { ActionNames[k] : k \in 1..Len(ActionNames) }

ToolOf(a) ==
  CASE a = "glueckliches_wackeln"   -> "rider_pi_glueckliches_wackeln"
    [] a = "auf_und_ab_wackeln"     -> "rider_pi_auf_und_ab_wackeln"
    [] a = "vor_und_zurueck_rollen" -> "rider_pi_kurz_vor_und_zurueck_rollen"
    [] a = "achten_fahren"          -> "rider_pi_achten_fahren"
    [] a = "kreis_drehen"           -> "rider_pi_auf_und_ab_im_kreisdrehen"
    [] a = "happy_dance"            -> "rider_pi_happy_dance"
    [] a = "adjust_height"          -> "rider_pi_adjust_height"
    [] a = "adjust_roll"            -> "rider_pi_adjust_roll"
    [] a = "balance_mode"           -> "rider_pi_set_balance_mode"
    [] a = "periodic_squat"         -> "rider_pi_periodic_squat"
    [] a = "periodic_shake"         -> "rider_pi_periodic_shake"
    [] a = "reset"                  -> "rider_pi_reset"
    [] a = "test_connection"        -> "rider_pi_test_connection"

\* the "args" entry of each action; period is counted in tenths of a second
DefaultArgs(a) ==
  CASE a = "adjust_height"  -> [NoArgs EXCEPT !.height = Some(85)]
    [] a = "adjust_roll"    -> [NoArgs EXCEPT !.roll = Some(0)]
    [] a = "balance_mode"   -> [NoArgs EXCEPT !.enabled = Some(TRUE)]
    [] a = "periodic_squat" -> [NoArgs EXCEPT !.period = Some(0)]
    [] a = "periodic_shake" -> [NoArgs EXCEPT !.period = Some(0)]
    [] OTHER                -> NoArgs

\* lines 68-142: the table as the module creates it
ActionTable == [ a \in Registered |-> [tool |-> ToolOf(a), args |-> DefaultArgs(a)] ]

VARIABLE ACTION_MAP  \* lines 68-142: the module's table, a dict that can be written to

\* BuildArgs without the clamps
BuildArgsNoClamp(a, height, roll, enabled, period) ==
  LET args == ACTION_MAP[a].args IN
  IF a = "adjust_height" /\ height # None
    THEN [args EXCEPT !.height = height]
  ELSE IF a = "adjust_roll" /\ roll # None
    THEN [args EXCEPT !.roll = roll]
  ELSE IF a = "balance_mode" /\ enabled # None
    THEN [args EXCEPT !.enabled = enabled]
  ELSE IF a \in {"periodic_squat", "periodic_shake"} /\ period # None
    THEN [args EXCEPT !.period = period]
  ELSE args

\* BuildArgs that takes every parameter given, whatever the action
BuildArgsAnyParam(a, height, roll, enabled, period) ==
  LET args == ACTION_MAP[a].args IN
  [height  |-> IF height # None THEN Some(Max(75, Min(115, height[1]))) ELSE args.height,
   roll    |-> IF roll # None THEN Some(Max(-17, Min(17, roll[1]))) ELSE args.roll,
   enabled |-> IF enabled # None THEN enabled ELSE args.enabled,
   period  |-> IF period # None THEN Some(Max(0, Min(40, period[1]))) ELSE args.period]

\* lines 319-332: the arguments of the command, from a copy of the defaults
BuildArgs(a, height, roll, enabled, period) ==
  LET args == ACTION_MAP[a].args IN
  IF a = "adjust_height" /\ height # None
    THEN [args EXCEPT !.height = Some(Max(75, Min(115, height[1])))]
  ELSE IF a = "adjust_roll" /\ roll # None
    THEN [args EXCEPT !.roll = Some(Max(-17, Min(17, roll[1])))]
  ELSE IF a = "balance_mode" /\ enabled # None
    THEN [args EXCEPT !.enabled = Some(enabled[1])]
  ELSE IF a \in {"periodic_squat", "periodic_shake"} /\ period # None
    THEN [args EXCEPT !.period = Some(Max(0, Min(40, period[1])))]
  ELSE args

\* ------------------------------------------------------------------ frames
(* A frame is the text of one channel message, kept as what the code reads  *)
(* of it: the request id of an "MCP_COMMAND [..]" tag, of an                *)
(* "MCP_RESPONSE [..]" tag and of an "MCP_ERROR [..]" tag (NoRid when the   *)
(* text has no such tag), and what follows the first "```json":             *)
(*   "none"    the text has no "```json"                                    *)
(*   "bad"     the fenced text is not JSON                                  *)
(*   "ok"      a JSON object with "status": "success"                       *)
(*   "failed"  a JSON object with another status                            *)
(*   "nonobj"  JSON that is not an object (a list, a number, null)          *)
Bodies == {"none", "bad", "ok", "failed", "nonobj"}

Frame(cmd, resp, err, body, tool, args) ==
  [cmd |-> cmd, resp |-> resp, err |-> err, body |-> body, tool |-> tool, args |-> args]

\* line 362: the command message
CommandFrame(rid, tool, args) == Frame(rid, NoRid, NoRid, "ok", tool, args)
ResponseFrame(rid, body) == Frame(NoRid, rid, NoRid, body, "", NoArgs)
ErrorFrame(rid) == Frame(NoRid, NoRid, rid, "none", "", NoArgs)
NoiseFrame == Frame(NoRid, NoRid, NoRid, "none", "", NoArgs)
\* a message whose text holds the response tag and the error tag
BothFrame(rid, body) == Frame(NoRid, rid, rid, body, "", NoArgs)

\* ----------------------------------------------------------------- results
Result(kind, status, isDict, src) ==
  [kind |-> kind, status |-> status, isDict |-> isDict, src |-> src,
   index |-> -1, action |-> "", available |-> <<>>]

NoRet == Result("none", "none", FALSE, 0)
\* ActionNotFound without the list of the actions
ActionNotFoundBare == Result("ActionNotFound", "error", TRUE, 0)

\* lines 314-317; the message lists ", ".join(ACTION_MAP.keys())
ActionNotFound ==
  [Result("ActionNotFound", "error", TRUE, 0) EXCEPT !.available = ActionNames]
\* lines 374-377 and 382
SendError == Result("SendError", "error", TRUE, 0)
\* line 349
ExceptionResult == Result("Exception", "error", TRUE, 0)
\* lines 434-437
Timeout == Result("Timeout", "error", TRUE, 0)

\* lines 413-419: json.loads of the fenced text of frame k
Payload(k, body) ==
  CASE body = "ok"     -> Result("Success", "success", TRUE, k)
    [] body = "failed" -> Result("Success", "error", TRUE, k)
    [] body = "nonobj" -> Result("Success", "none", FALSE, k)
\* lines 420-425
Degraded(k) == Result("Degraded", "success", TRUE, k)
\* RemoteError without the text of the message
RemoteErrorNoText(k) == Result("RemoteError", "error", TRUE, 0)
\* line 429
RemoteError(k) == Result("RemoteError", "error", TRUE, k)

\* ScanFrame with the request id of the response tag left unread
ScanFrameAnyId(k, f, rid) ==
  IF f.resp # NoRid /\ f.body = "bad" THEN Degraded(k)
  ELSE IF f.resp # NoRid /\ f.body # "none" THEN Payload(k, f.body)
  ELSE IF f.err # NoRid THEN RemoteError(k)
  ELSE NoRet

\* lines 409-429: what one message of the page does to the wait:
\* NoRet when the loop goes on to the next message
ScanFrame(k, f, rid) ==
  IF f.resp = rid /\ f.body = "bad" THEN Degraded(k)
  ELSE IF f.resp = rid /\ f.body # "none" THEN Payload(k, f.body)
  ELSE IF f.err = rid THEN RemoteError(k)
  ELSE NoRet

\* lines 408-429: the first message of the page that ends the wait
RECURSIVE ScanPage(_, _, _)
ScanPage(page, frames, rid) ==
  IF page = <<>> THEN NoRet
  ELSE LET r == ScanFrame(page[1], frames[page[1]], rid) IN
       IF r # NoRet THEN r ELSE ScanPage(Tail(page), frames, rid)

\* TableAfter when args is the table's own dict, not a copy of it
TableAfterInPlace(a, args) == [ACTION_MAP EXCEPT ![a].args = args]

\* lines 320-332: the table after the arguments args of action a were built:
\* mapping and args are copies (.copy()), the writes go to the copy
TableAfter(a, args) == ACTION_MAP

\* --------------------------------------------------------------- transport
Reverse(s) == [k \in 1..Len(s) |-> s[Len(s) + 1 - k]]
Range(lo, hi) == [k \in 1..Max(0, hi - lo + 1) |-> lo + k - 1]

\* Pages without the after parameter: the messages of the whole channel
PagesFromStart(len, after) ==
  LET n == Min(PAGE_LIMIT, len)
  IN {Range(1, n), Range(len - n + 1, len), Reverse(Range(1, n)), Reverse(Range(len - n + 1, len))}

(* GET /channels/{id}/messages?limit=10&after=<id>: at most PAGE_LIMIT of   *)
(* the messages after the given one.  Which of them, and in which order,   *)
(* is the service's choice: the ones next to the given message or the       *)
(* newest ones, oldest first or newest first.                               *)
Pages(len, after) ==
  LET n == Min(PAGE_LIMIT, len - after)
      oldest == Range(after + 1, after + n)
      newest == Range(len - n + 1, len)
  IN {oldest, newest, Reverse(oldest), Reverse(newest)}

VARIABLES
  pc,              \* where the call stands
  now,             \* time.time(), in ticks
  COMMAND_TIMEOUT, \* line 64, in ticks
  chan,            \* the messages of the channel, oldest first
  call,            \* the arguments of the rider_pi_tool call
  ret,             \* what rider_pi_tool returned
  i,               \* _execute_sequence: index of the step
  results,         \* _execute_sequence: results
  successful,      \* _execute_sequence: successful
  failed,          \* _execute_sequence: failed
  request_id,      \* _execute_single_action: request_id
  command_msg_id,  \* _send_mcp_command: command_msg_id
  start_time,      \* _wait_for_response: start_time
  hist             \* what happened so far (observation only)

\* send_voice_message
VARIABLES
  vpc,             \* where the call stands
  vcall,           \* the arguments of the call
  voice_settings,  \* request_body["voice_settings"]
  audio_data,      \* len(audio_data), in bytes
  vret,            \* what send_voice_message returned
  vhist            \* the requests made and how each ended (observation only)

\* send_heartbeat
VARIABLES
  hpc,             \* where the call stands
  hcall,           \* the arguments of the call and the configuration
  heartbeat_parts, \* heartbeat_parts
  hret,            \* what send_heartbeat returned
  hhist            \* the lookups and sends made (observation only)

voiceVars == <<vpc, vcall, voice_settings, audio_data, vret, vhist>>
heartbeatVars == <<hpc, hcall, heartbeat_parts, hret, hhist>>
riderVars == <<pc, now, COMMAND_TIMEOUT, ACTION_MAP, chan, call, ret, i, results, successful,
               failed, request_id, command_msg_id, start_time, hist>>

vars == <<pc, now, COMMAND_TIMEOUT, ACTION_MAP, chan, call, ret, i, results, successful,
          failed, request_id, command_msg_id, start_time, hist, voiceVars, heartbeatVars>>

\* ------------------------------------------------------------------ inputs
Step(a, height) == [action |-> a, height |-> height, roll |-> None,
                    enabled |-> None, period |-> None]

RECURSIVE SeqsOf(_, _)
SeqsOf(S, n) ==
  IF n = 0 THEN {<<>>}
  ELSE LET shorter == SeqsOf(S, n - 1) IN
       shorter \cup { Append(s, x) : s \in { t \in shorter : Len(t) = n - 1 }, x \in S }

\* delay_between, in ticks
DelayChoices == {0, TicksPerSecond}

Call(a, height, sequence, delay) ==
  [action |-> a, height |-> height, roll |-> None, enabled |-> None,
   period |-> None, sequence |-> sequence, delay_between |-> delay]

NoSequence == [kind |-> "none", steps |-> <<>>]
NoCall == Call("", None, NoSequence, 0)

\* the calls of a single action: a registered action without and with a
\* parameter, an action that is not registered, the list of actions
SingleChoices ==
  { Call("happy_dance", None, NoSequence, 0), Call("adjust_height", Some(500), NoSequence, 0),
    Call("fly", None, NoSequence, 0), Call("list_actions", None, NoSequence, 0) }

\* a call and a step with all four parameters
CallWith(a, height, roll, enabled, period) ==
  [Call(a, height, NoSequence, 0) EXCEPT !.roll = roll, !.enabled = enabled, !.period = period]
StepWith(a, height, roll, enabled, period) ==
  [Step(Some(a), height) EXCEPT !.roll = roll, !.enabled = enabled, !.period = period]

\* the values of the parameters: none, the ends of the documented range,
\* values inside and values beyond; period in tenths of a second
Around(v) == (v - MaxOver)..(v + MaxOver)
HeightChoices == {None} \cup { Some(v) : v \in Around(75) \cup Around(115) \cup {-50, 100, 500} }
RollChoices == {None} \cup { Some(v) : v \in {-17 - MaxOver, -17, 0, 17, 17 + MaxOver} }
EnabledChoices == {None, Some(TRUE), Some(FALSE)}
PeriodChoices == {None} \cup { Some(v) : v \in {0 - MaxOver, 0, 15, 40, 40 + MaxOver} }

\* every registered action with every combination of the parameters
ArgChoices ==
  { CallWith(a, h, r, e, p) : a \in Registered, h \in HeightChoices, r \in RollChoices,
                              e \in EnabledChoices, p \in PeriodChoices }

\* steps with and without the parameter the action takes, and a step with
\* parameters the action does not take
ArgStepChoices ==
  { StepWith("adjust_height", Some(100), None, None, None),
    StepWith("adjust_height", None, None, None, None),
    StepWith("periodic_shake", None, None, None, Some(15)),
    StepWith("periodic_shake", None, None, None, None),
    StepWith("reset", Some(100), None, None, Some(15)) }

\* ------------------------------------------------------------- observation
NoHist ==
  [sends |-> 0,        \* POST requests made in this call
   sent |-> "",        \* how the last POST ended
   polls |-> 0,        \* GET requests made in this dispatch
   badPolls |-> 0,     \* GET requests of this dispatch that failed
   lastOk |-> FALSE,   \* the last GET returned status 200
   page |-> <<>>,      \* the message ids the last GET returned, in its order
   delays |-> 0,       \* time.sleep(delay_between) calls
   attempted |-> <<>>, \* indices of the steps the runner took up
   env |-> 0,          \* messages other parties posted
   noise |-> 0,        \* messages of unrelated traffic
   answered |-> {},    \* request ids the bot answered
   rids |-> {},        \* request ids generated in this call
   replyTo |-> {}]     \* <<answer, command>>: the bot's answers, by message id

\* no call of send_voice_message has been made
VoiceIdle ==
  /\ vpc = "idle"
  /\ vcall = None
  /\ voice_settings = None
  /\ audio_data = None
  /\ vret = None
  /\ vhist = [requests |-> <<>>, tts |-> "none", dm |-> "none", upload |-> "none", posted |-> 0]

\* no call of send_heartbeat has been made
HeartbeatIdle ==
  /\ hpc = "idle"
  /\ hcall = None
  /\ heartbeat_parts = <<>>
  /\ hret = None
  /\ hhist = [requests |-> <<>>, spotify |-> "none", weather |-> "none", sends |-> 0, sent |-> None]

Init ==
  /\ VoiceIdle
  /\ HeartbeatIdle
  /\ pc = "idle"
  /\ now = 0
  /\ COMMAND_TIMEOUT \in {0 - TicksPerSecond, 0, TicksPerSecond * MaxTimeoutS}
  /\ ACTION_MAP = ActionTable
  /\ chan = <<>>
  /\ call = NoCall
  /\ ret = NoRet
  /\ i = 0
  /\ results = <<>>
  /\ successful = 0
  /\ failed = 0
  /\ request_id = NoRid
  /\ command_msg_id = 0
  /\ start_time = 0
  /\ hist = NoHist

\* -------------------------------------------------------- _execute_sequence
total_actions == Len(call.sequence.steps)

\* Summary that is "success" as soon as one step succeeded
SummaryAnySuccess(res, ok, bad) ==
  [kind |-> "Summary", status |-> IF ok > 0 THEN "success" ELSE "partial",
   isDict |-> TRUE, total_actions |-> total_actions, successful |-> ok,
   failed |-> bad, results |-> res]

\* lines 288-303
Summary(res, ok, bad) ==
  [kind |-> "Summary", status |-> IF bad = 0 THEN "success" ELSE "partial",
   isDict |-> TRUE, total_actions |-> total_actions, successful |-> ok,
   failed |-> bad, results |-> res]

\* the for loop goes on after step i: the next step, or the summary
Continue(res, ok, bad) ==
  /\ results' = res
  /\ successful' = ok
  /\ failed' = bad
  /\ IF i + 1 < total_actions
       THEN /\ i' = i + 1
            /\ pc' = "seq_step"
            /\ ret' = ret
       ELSE /\ i' = i
            /\ pc' = "done"
            /\ ret' = Summary(res, ok, bad)

\* Record without results.append(result)
RecordNoAppend(res) ==
  IF ~res.isDict
    THEN /\ pc' = "raised"
         /\ ret' = [NoRet EXCEPT !.kind = "TypeError"]
         /\ UNCHANGED <<i, results, successful, failed>>
    ELSE LET ok == IF res.status = "success" THEN successful + 1 ELSE successful
             bad == IF res.status = "success" THEN failed ELSE failed + 1
         IN IF i < total_actions - 1 /\ call.delay_between > 0
              THEN /\ pc' = "delay"
                   /\ results' = results
                   /\ successful' = ok
                   /\ failed' = bad
                   /\ UNCHANGED <<i, ret>>
              ELSE Continue(results, ok, bad)

\* Record that counts every matched success message as a success
RecordCountsMatched(res) ==
  IF ~res.isDict
    THEN /\ pc' = "raised"
         /\ ret' = [NoRet EXCEPT !.kind = "TypeError"]
         /\ UNCHANGED <<i, results, successful, failed>>
    ELSE LET entry == [res EXCEPT !.index = i, !.action = call.sequence.steps[i + 1].action[1]]
             res2 == Append(results, entry)
             ok == IF res.kind \in {"Success", "Degraded"} THEN successful + 1 ELSE successful
             bad == IF res.kind \in {"Success", "Degraded"} THEN failed ELSE failed + 1
         IN IF i < total_actions - 1 /\ call.delay_between > 0
              THEN /\ pc' = "delay"
                   /\ results' = res2
                   /\ successful' = ok
                   /\ failed' = bad
                   /\ UNCHANGED <<i, ret>>
              ELSE Continue(res2, ok, bad)

\* lines 269-286: the result of step i comes back to the runner
Record(res) ==
  IF ~res.isDict
    THEN \* result["index"] = i raises TypeError, which nothing catches
         /\ pc' = "raised"
         /\ ret' = [NoRet EXCEPT !.kind = "TypeError"]
         /\ UNCHANGED <<i, results, successful, failed>>
    ELSE LET entry == [res EXCEPT !.index = i, !.action = call.sequence.steps[i + 1].action[1]]
             res2 == Append(results, entry)
             ok == IF res.status = "success" THEN successful + 1 ELSE successful
             bad == IF res.status = "success" THEN failed ELSE failed + 1
         IN IF i < total_actions - 1 /\ call.delay_between > 0
              THEN /\ pc' = "delay"
                   /\ results' = res2
                   /\ successful' = ok
                   /\ failed' = bad
                   /\ UNCHANGED <<i, ret>>
              ELSE Continue(res2, ok, bad)

\* _execute_single_action returns res: to the caller of rider_pi_tool
\* (line 228), or to the runner (line 268)
Return(res) ==
  IF call.action = "sequence"
    THEN Record(res)
    ELSE /\ pc' = "done"
         /\ ret' = res
         /\ UNCHANGED <<i, results, successful, failed>>

\* lines 307-346: validate the action, build the command; p holds the
\* parameters height, roll, enabled and period of the call
ExecuteSingleAction(a, p) ==
  IF a \notin DOMAIN ACTION_MAP
    THEN /\ Return(ActionNotFound)
         /\ UNCHANGED <<request_id, ACTION_MAP>>
         /\ hist' = [hist EXCEPT !.attempted = IF call.action = "sequence" THEN Append(@, i) ELSE @]
    ELSE /\ ACTION_MAP' = TableAfter(a, BuildArgs(a, p.height, p.roll, p.enabled, p.period))
         /\ request_id' = now
         /\ pc' = "send"
         /\ hist' = [hist EXCEPT !.rids = @ \cup {now}, !.polls = 0, !.badPolls = 0,
                                 !.lastOk = FALSE, !.page = <<>>,
                                 !.attempted = IF call.action = "sequence" THEN Append(@, i) ELSE @]
         /\ UNCHANGED <<ret, i, results, successful, failed>>

\* ValidSequence without the test for the empty list
ValidSequenceAnyList(sequence) == sequence.kind = "list"

\* line 219: the sequence argument is a list that is not empty
ValidSequence(sequence) == sequence.kind = "list" /\ sequence.steps # <<>>

\* lines 146-228: rider_pi_tool is called
CallTool(c) ==
  /\ pc = "idle"
  /\ call' = c
  /\ UNCHANGED <<voiceVars, heartbeatVars, now, COMMAND_TIMEOUT, chan, command_msg_id, start_time>>
  /\ IF c.action = "list_actions"
       THEN /\ pc' = "done"
            /\ ret' = Result("Actions", "success", TRUE, 0)
            /\ UNCHANGED <<i, results, successful, failed, request_id, hist, ACTION_MAP>>
     ELSE IF c.action = "sequence"
       THEN IF ~ValidSequence(c.sequence)
              THEN /\ pc' = "done"
                   /\ ret' = Result("Preflight", "error", TRUE, 0)
                   /\ UNCHANGED <<i, results, successful, failed, request_id, hist, ACTION_MAP>>
              ELSE \* lines 235-243: _execute_sequence begins
                   /\ i' = 0
                   /\ results' = <<>>
                   /\ successful' = 0
                   /\ failed' = 0
                   /\ UNCHANGED <<request_id, hist, ACTION_MAP>>
                   /\ IF c.sequence.steps = <<>>
                        THEN /\ pc' = "done"
                             /\ ret' = [kind |-> "Summary", status |-> "success", isDict |-> TRUE,
                                        total_actions |-> 0, successful |-> 0, failed |-> 0,
                                        results |-> <<>>]
                        ELSE /\ pc' = "seq_step"
                             /\ ret' = ret
     ELSE ExecuteSingleAction(c.action, c)

\* the action and parameters _execute_single_action was called with
Current == IF call.action = "sequence" THEN call.sequence.steps[i + 1] ELSE call
CurrentAction == IF call.action = "sequence" THEN Current.action[1] ELSE call.action

\* SeqStep that ends the sequence at a step without an action
SeqStepStopsAtMalformed ==
  /\ pc = "seq_step"
  /\ UNCHANGED <<voiceVars, heartbeatVars, now, COMMAND_TIMEOUT, chan, call, command_msg_id, start_time>>
  /\ LET action_dict == call.sequence.steps[i + 1] IN
     IF action_dict.action = None \/ action_dict.action = Some("")
       THEN /\ results' = Append(results,
                            [Result("NoAction", "error", TRUE, 0) EXCEPT !.index = i, !.action = "unknown"])
            /\ failed' = failed + 1
            /\ pc' = "done"
            /\ ret' = Summary(results', successful, failed')
            /\ hist' = [hist EXCEPT !.attempted = Append(@, i)]
            /\ UNCHANGED <<i, successful, request_id, ACTION_MAP>>
       ELSE ExecuteSingleAction(action_dict.action[1], action_dict)

\* lines 243-268: the runner takes up step i
SeqStep ==
  /\ pc = "seq_step"
  /\ UNCHANGED <<voiceVars, heartbeatVars, now, COMMAND_TIMEOUT, chan, call, command_msg_id, start_time>>
  /\ LET action_dict == call.sequence.steps[i + 1] IN
     IF action_dict.action = None \/ action_dict.action = Some("")
       THEN \* lines 246-254: recorded as failed, and `continue`
            /\ Continue(Append(results,
                          [Result("NoAction", "error", TRUE, 0) EXCEPT !.index = i, !.action = "unknown"]),
                        successful, failed + 1)
            /\ hist' = [hist EXCEPT !.attempted = Append(@, i)]
            /\ UNCHANGED <<request_id, ACTION_MAP>>
       ELSE ExecuteSingleAction(action_dict.action[1], action_dict)

\* lines 282-286: the pause between two steps
Delay ==
  /\ pc = "delay"
  /\ now' = now + call.delay_between
  /\ hist' = [hist EXCEPT !.delays = @ + 1]
  /\ Continue(results, successful, failed)
  /\ UNCHANGED <<voiceVars, heartbeatVars, COMMAND_TIMEOUT, ACTION_MAP, chan, call, request_id, command_msg_id, start_time>>

\* LoopTest without the sleep
LoopTestNoSleep(start, t, h) ==
  IF t - start < COMMAND_TIMEOUT
    THEN /\ now' = t
         /\ pc' = "poll"
         /\ hist' = h
         /\ UNCHANGED <<ret, i, results, successful, failed>>
    ELSE /\ now' = t
         /\ hist' = h
         /\ Return(Timeout)

\* LoopTest with <= for <
LoopTestInclusive(start, t, h) ==
  IF t - start <= COMMAND_TIMEOUT
    THEN /\ now' = t + POLL_INTERVAL
         /\ pc' = "poll"
         /\ hist' = h
         /\ UNCHANGED <<ret, i, results, successful, failed>>
    ELSE /\ now' = t
         /\ hist' = h
         /\ Return(Timeout)

\* lines 392-393 and 434-437: the loop test at time t of a wait that began
\* at time start, then the sleep of one poll interval, or the timeout result
LoopTest(start, t, h) ==
  IF t - start < COMMAND_TIMEOUT
    THEN /\ now' = t + POLL_INTERVAL
         /\ pc' = "poll"
         /\ hist' = h
         /\ UNCHANGED <<ret, i, results, successful, failed>>
    ELSE /\ now' = t
         /\ hist' = h
         /\ Return(Timeout)

\* lines 353-385: the command is posted.  outcome: "ok" (200 or 201 with the
\* id of the message), "status" (another status), "network" (a
\* RequestException; the message may have been posted all the same),
\* "noid" (200 whose body has no "id": KeyError, caught at line 348)
SendOutcomes == {"ok", "status", "network", "network_posted", "noid"}

\* SendSucceeded without the test of the status
SendSucceededAnyStatus(outcome) == outcome \in {"ok", "status"}

\* lines 373-382: the POST returned 200 or 201, and the id of the message
SendSucceeded(outcome) == outcome = "ok"

\* Send that makes the POST a second time
SendTwice(outcome, d) ==
  /\ pc = "send"
  /\ LET posted == outcome \in {"ok", "network_posted", "noid"}
         frame == CommandFrame(request_id, ACTION_MAP[CurrentAction].tool,
                    BuildArgs(CurrentAction, Current.height, Current.roll,
                              Current.enabled, Current.period))
         h == [hist EXCEPT !.sends = @ + 2, !.sent = outcome]
     IN /\ chan' = IF posted THEN Append(Append(chan, frame), frame) ELSE chan
        /\ IF SendSucceeded(outcome)
             THEN /\ command_msg_id' = Len(chan')
                  /\ start_time' = now + d
                  /\ LoopTest(now + d, now + d, h)
             ELSE /\ now' = now + d
                  /\ hist' = h
                  /\ Return(IF outcome = "noid" THEN ExceptionResult ELSE SendError)
                  /\ UNCHANGED <<command_msg_id, start_time>>
  /\ UNCHANGED <<voiceVars, heartbeatVars, COMMAND_TIMEOUT, ACTION_MAP, call, request_id>>

Send(outcome, d) ==
  /\ pc = "send"
  /\ LET posted == outcome \in {"ok", "network_posted", "noid"}
         frame == CommandFrame(request_id, ACTION_MAP[CurrentAction].tool,
                    BuildArgs(CurrentAction, Current.height, Current.roll,
                              Current.enabled, Current.period))
         h == [hist EXCEPT !.sends = @ + 1, !.sent = outcome]
     IN /\ chan' = IF posted THEN Append(chan, frame) ELSE chan
        /\ IF SendSucceeded(outcome)
             THEN /\ command_msg_id' = Len(chan')
                  /\ start_time' = now + d
                  /\ LoopTest(now + d, now + d, h)
             ELSE /\ now' = now + d
                  /\ hist' = h
                  /\ Return(IF outcome = "noid" THEN ExceptionResult ELSE SendError)
                  /\ UNCHANGED <<command_msg_id, start_time>>
  /\ UNCHANGED <<voiceVars, heartbeatVars, COMMAND_TIMEOUT, ACTION_MAP, call, request_id>>

\* PollResult with a failed GET given back as an error
PollResultSurfaced(ok, page) ==
  IF ok THEN ScanPage(page, chan, request_id) ELSE ExceptionResult

\* PollResult whose decoding gives up after the first GET
PollResultByCount(ok, page) ==
  LET r == ScanPage(page, chan, request_id) IN
  IF ~ok THEN NoRet
  ELSE IF r.kind = "Success" /\ hist.polls > 0 THEN Degraded(r.src)
  ELSE r

\* lines 403-432: what one GET gives the wait: the result of the scan of
\* its page; nothing (`continue`) when the GET failed
PollResult(ok, page) ==
  IF ok THEN ScanPage(page, chan, request_id) ELSE NoRet

\* Poll that notes the result of a match and goes on polling
PollKeepsGoing(ok, page, d) ==
  /\ pc = "poll"
  /\ LET r == PollResult(ok, page)
         h == [hist EXCEPT !.polls = @ + 1,
                           !.badPolls = IF ok THEN @ ELSE @ + 1,
                           !.lastOk = ok,
                           !.page = IF ok THEN page ELSE <<>>]
     IN IF r = NoRet
          THEN LoopTest(start_time, now + d, h)
          ELSE /\ now' = now + d + POLL_INTERVAL
               /\ hist' = h
               /\ ret' = r
               /\ UNCHANGED <<pc, i, results, successful, failed>>
  /\ UNCHANGED <<voiceVars, heartbeatVars, COMMAND_TIMEOUT, ACTION_MAP, chan, call, request_id, command_msg_id, start_time>>

\* lines 395-432: one GET and the scan of its page, then the next loop
\* test.  ok: the GET returned status 200; d: the ticks it took
Poll(ok, page, d) ==
  /\ pc = "poll"
  /\ LET r == PollResult(ok, page)
         h == [hist EXCEPT !.polls = @ + 1,
                           !.badPolls = IF ok THEN @ ELSE @ + 1,
                           !.lastOk = ok,
                           !.page = IF ok THEN page ELSE <<>>]
     IN IF r = NoRet
          THEN LoopTest(start_time, now + d, h)
          ELSE /\ now' = now + d
               /\ hist' = h
               /\ Return(r)
  /\ UNCHANGED <<voiceVars, heartbeatVars, COMMAND_TIMEOUT, ACTION_MAP, chan, call, request_id, command_msg_id, start_time>>

\* ------------------------------------------------------------- environment
\* the request ids other parties may write into a message: a foreign one,
\* the ones this call generated, the one a call made now would generate
EnvRids == {ForeignRid} \cup hist.rids \cup (IF pc \in {"idle", "seq_step", "delay"} THEN {now} ELSE {})

\* what the bot may answer to the command with request id r
Answers(r) == { ResponseFrame(r, b) : b \in Bodies } \cup {ErrorFrame(r)}

\* what other parties post: unrelated text, answers to other callers'
\* commands, and messages that carry one of this call's request ids
EnvFrames ==
  {NoiseFrame, ResponseFrame(ForeignRid, "ok"), ErrorFrame(ForeignRid)}
    \cup UNION { Answers(r) : r \in EnvRids \ {ForeignRid} }

\* another party posts a message
EnvPost(f) ==
  /\ pc \notin {"done", "raised"}
  /\ hist.env < MaxEnvFrames
  /\ chan' = Append(chan, f)
  /\ hist' = [hist EXCEPT !.env = @ + 1]
  /\ UNCHANGED <<voiceVars, heartbeatVars, pc, now, COMMAND_TIMEOUT, ACTION_MAP, call, ret, i, results, successful,
                 failed, request_id, command_msg_id, start_time>>

\* unrelated traffic: a message without any tag
EnvNoise ==
  /\ pc \notin {"done", "raised"}
  /\ hist.noise < MaxNoise
  /\ chan' = Append(chan, NoiseFrame)
  /\ hist' = [hist EXCEPT !.noise = @ + 1]
  /\ UNCHANGED <<voiceVars, heartbeatVars, pc, now, COMMAND_TIMEOUT, ACTION_MAP, call, ret, i, results, successful,
                 failed, request_id, command_msg_id, start_time>>

\* the Discord bot answers the command that is waited for, once
Bot(f) ==
  /\ pc = "poll"
  /\ request_id \notin hist.answered
  /\ chan' = Append(chan, f)
  /\ hist' = [hist EXCEPT !.answered = @ \cup {request_id}]
  /\ UNCHANGED <<voiceVars, heartbeatVars, pc, now, COMMAND_TIMEOUT, ACTION_MAP, call, ret, i, results, successful,
                 failed, request_id, command_msg_id, start_time>>

\* an HTTP request returns at once, or after MaxReqDur ticks
Durations == {0, MaxReqDur}

\* the steps of one dispatch, its HTTP requests taking one of the times D
\* and its POST ending in one of the outcomes O
Dispatch(D, O) ==
  \/ \E outcome \in O, d \in D : Send(outcome, d)
  \/ \E ok \in BOOLEAN, d \in D :
       \E page \in Pages(Len(chan), command_msg_id) : Poll(ok, page, d)

\* one call of one registered or unregistered action, or list_actions, on a
\* channel other parties write to
Next ==
  \/ \E c \in SingleChoices : CallTool(c)
  \/ Dispatch(Durations, SendOutcomes)
  \/ \E f \in Answers(request_id) : Bot(f)
  \/ \E f \in EnvFrames : EnvPost(f)

Spec == Init /\ [][Next]_vars

\* the call runs on: a POST and a GET return (timeout=10, lines 370 and
\* 400) and time.sleep returns, so a dispatch step that can be taken is taken
FairSpec == Spec /\ WF_vars(Dispatch(Durations, SendOutcomes))

\* one call of one action on a busy channel: unrelated traffic, and the
\* bot's answer
NextPage ==
  \/ CallTool(Call("happy_dance", None, NoSequence, 0))
  \/ Dispatch(Durations, SendOutcomes)
  \/ Bot(ResponseFrame(request_id, "ok"))
  \/ EnvNoise

SpecPage == Init /\ [][NextPage]_vars

\* the steps the sequences of SpecSeq are made of
SeqStepChoices == { Step(Some("happy_dance"), None), Step(Some("fly"), None), Step(None, None) }

SeqChoices ==
  {[kind |-> "none", steps |-> <<>>], [kind |-> "nonlist", steps |-> <<>>]}
    \cup { [kind |-> "list", steps |-> s] : s \in SeqsOf(SeqStepChoices, MaxSeqLen) }

\* what the bot answers in SpecSeq
SeqAnswers(r) == {ResponseFrame(r, "ok"), ResponseFrame(r, "failed"),
                  ResponseFrame(r, "nonobj"), ErrorFrame(r)}

\* one call of the sequence action; the requests return at once, the POST
\* with status 200 or with another status
NextSeq ==
  \/ \E s \in SeqChoices, d \in DelayChoices : CallTool(Call("sequence", None, s, d))
  \/ SeqStep
  \/ Delay
  \/ Dispatch({0}, {"ok", "status"})
  \/ \E f \in SeqAnswers(request_id) : Bot(f)

SpecSeq == Init /\ [][NextSeq]_vars

\* another caller of the tool builds a command at this reading of the clock
\* (line 335) and posts it on the same channel
OtherCaller ==
  /\ pc \in {"send", "poll"}
  /\ hist.env < MaxEnvFrames
  /\ chan' = Append(chan, CommandFrame(now, ToolOf("reset"), NoArgs))
  /\ hist' = [hist EXCEPT !.env = @ + 1]
  /\ UNCHANGED <<voiceVars, heartbeatVars, pc, now, COMMAND_TIMEOUT, ACTION_MAP, call, ret, i, results, successful,
                 failed, request_id, command_msg_id, start_time>>

\* the Discord bot answers the command message k, once, under the request
\* id it reads in that message
BotReply(k) ==
  /\ pc \notin {"done", "raised"}
  /\ chan[k].cmd # NoRid
  /\ \A p \in hist.replyTo : p[2] # k
  /\ chan' = Append(chan, ResponseFrame(chan[k].cmd, "ok"))
  /\ hist' = [hist EXCEPT !.replyTo = @ \cup {<<Len(chan) + 1, k>>}]
  /\ UNCHANGED <<voiceVars, heartbeatVars, pc, now, COMMAND_TIMEOUT, ACTION_MAP, call, ret, i, results, successful,
                 failed, request_id, command_msg_id, start_time>>

\* one call of one action on a channel another caller uses as well
NextShared ==
  \/ CallTool(Call("happy_dance", None, NoSequence, 0))
  \/ Dispatch(Durations, {"ok"})
  \/ OtherCaller
  \/ \E k \in 1..Len(chan) : BotReply(k)

SpecShared == Init /\ [][NextShared]_vars

\* calls with parameters: every registered action with every combination of
\* the parameters, and sequences of steps with parameters; the requests
\* return at once, the POST with status 200, and the bot answers
NextArgs ==
  \/ pc = "idle" /\ \E c \in ArgChoices : CallTool(c)
  \/ pc = "idle" /\ \E s \in SeqsOf(ArgStepChoices, MaxSeqLen) :
                      CallTool(Call("sequence", None, [kind |-> "list", steps |-> s], 0))
  \/ SeqStep
  \/ Dispatch({0}, {"ok"})
  \/ Bot(ResponseFrame(request_id, "ok"))

SpecArgs == Init /\ [][NextArgs]_vars

\* messages with the error tag of request id r, with both tags, and plain
\* responses
ErrAnswers(r) ==
  {ErrorFrame(r), ResponseFrame(r, "ok"), ResponseFrame(r, "none")}
    \cup { BothFrame(r, b) : b \in {"none", "bad", "ok"} }

\* one call of one action; the bot and another party post messages that
\* carry the error tag, the response tag or both
NextErr ==
  \/ CallTool(Call("happy_dance", None, NoSequence, 0))
  \/ Dispatch(Durations, {"ok"})
  \/ \E f \in ErrAnswers(request_id) : Bot(f)
  \/ \E r \in hist.rids \cup {ForeignRid} : \E f \in ErrAnswers(r) : EnvPost(f)

SpecErr == Init /\ [][NextErr]_vars

\* one call of the sequence action whose steps are registered actions; the
\* bot answers a command message at any time, also after the step that
\* posted it has timed out
NextLate ==
  \/ pc = "idle" /\ \E s \in SeqsOf({Step(Some("happy_dance"), None)}, MaxSeqLen) :
                      CallTool(Call("sequence", None, [kind |-> "list", steps |-> s], 0))
  \/ SeqStep
  \/ Dispatch({0}, {"ok"})
  \/ \E k \in 1..Len(chan) : BotReply(k)

SpecLate == Init /\ [][NextLate]_vars

\* ======================================================= send_voice_message
\* ------------------------------------------------------------------ bounds
\* runs of one character in a text
MaxRuns == 3

\* ------------------------------------------------------- program constants
MAX_TEXT_LENGTH == 3000
MAX_AUDIO_SIZE_MB == 25
\* 1024 * 1024
BytesPerMB == 1048576

\* ------------------------------------------------------------------- texts
\* a letter, a whitespace character, the NUL character
Chars == {"a", " ", "NUL"}
RunLens == {1, MAX_TEXT_LENGTH - 1, MAX_TEXT_LENGTH}
Runs == [ch : Chars, n : RunLens]
Str(runs) == [kind |-> "str", runs |-> runs]
\* text=None, and a text that is not a string
NoText == [kind |-> "none", runs |-> <<>>]
NotAString == [kind |-> "other", runs |-> <<>>]
TextChoices == {NoText, NotAString} \cup {Str(r) : r \in SeqsOf(Runs, MaxRuns)}

RECURSIVE LenOf(_)
\* len(s)
LenOf(runs) == IF runs = <<>> THEN 0 ELSE Head(runs).n + LenOf(Tail(runs))

\* s.replace('\0', '')
RemoveNul(runs) == SelectSeq(runs, LAMBDA r : r.ch # "NUL")

RECURSIVE LStrip(_)
LStrip(runs) ==
  IF runs = <<>> THEN runs
  ELSE IF Head(runs).ch = " " THEN LStrip(Tail(runs)) ELSE runs

\* s.strip()
Strip(runs) == Reverse(LStrip(Reverse(LStrip(runs))))

\* the sanitising without the strip
SanitizeNoStrip(text) == RemoveNul(text.runs)

\* line 67: sanitized_text = text.replace('\0', '').strip()
Sanitize(text) == Strip(RemoveNul(text.runs))

\* lines 60-79: the error the input validation ends with, "ok" when it passes
TextCheck(text) ==
  IF text.kind # "str" \/ text.runs = <<>> THEN "required"
  ELSE IF LenOf(Sanitize(text)) = 0 THEN "empty"
  ELSE IF LenOf(Sanitize(text)) > MAX_TEXT_LENGTH THEN "too_long"
  ELSE "ok"

\* ---------------------------------------------------------- voice settings
\* max(0.0, min(1.0, v)), in hundredths
Clamp01(v) == Max(0, Min(100, v))

\* lines 112-117
DefaultSettings == [stability |-> Some(50), similarity_boost |-> Some(75),
                    style |-> Some(0), use_speaker_boost |-> Some(FALSE)]

\* lines 100-119: the voice_settings of the request; a key that is not in
\* the dictionary is None here
VoiceSettings(stability, similarity_boost, style, use_speaker_boost) ==
  LET clamp(v) == IF v = None THEN None ELSE Some(Clamp01(v[1]))
      supplied == [stability |-> clamp(stability),
                   similarity_boost |-> clamp(similarity_boost),
                   style |-> clamp(style),
                   use_speaker_boost |-> use_speaker_boost]
  IN IF \A k \in DOMAIN supplied : supplied[k] = None THEN DefaultSettings ELSE supplied

\* ----------------------------------------------------------------- results
VoiceResult(status, message) == [status |-> status, message |-> message]

\* the size check that lets every audio through
AudioNeverTooLarge(len) == FALSE

\* lines 150-154: audio_size_mb > MAX_AUDIO_SIZE_MB
AudioTooLarge(len) == len > MAX_AUDIO_SIZE_MB * BytesPerMB

\* line 177: the message goes to a DM channel
IsDm(c) == c.target_type = "user" \/ (c.target_type = "auto" /\ c.target = "7")

\* ------------------------------------------------------------------ inputs
VoiceCall(text, target, target_type, stability, similarity_boost, style, use_speaker_boost) ==
  [text |-> text, target |-> target, target_type |-> target_type,
   stability |-> stability, similarity_boost |-> similarity_boost, style |-> style,
   use_speaker_boost |-> use_speaker_boost]

\* a target is an id that starts with 7, an id that does not, or None
Targets == {"7", "1", "None"}
TargetTypes == {"user", "channel", "auto"}
\* hundredths: below the range, its ends, inside, above
SettingChoices == {None, Some(0 - 10), Some(0), Some(30), Some(100), Some(150)}
BoostChoices == {None, Some(TRUE), Some(FALSE)}
GoodText == Str(<<[ch |-> "a", n |-> 1]>>)

\* every text, every target and every combination of voice settings
VoiceChoices ==
  {VoiceCall(t, "1", "channel", None, None, None, None) : t \in TextChoices}
  \cup {VoiceCall(GoodText, tg, tt, None, None, None, None) : tg \in Targets, tt \in TargetTypes}
  \cup {VoiceCall(GoodText, "1", "channel", st, sb, sy, b) :
          st \in SettingChoices, sb \in SettingChoices, sy \in SettingChoices, b \in BoostChoices}

\* what a request may end with: status 200 (200 or 201 for the upload), any
\* other status, a body that does not hold what is read from it, a timeout
\* (before the service acted, or "late": after it), a connection error
TtsOutcomes == {"ok", "status", "timeout", "network"}
DmOutcomes == {"ok", "status", "bad_body", "timeout", "network"}
UploadOutcomes == {"ok", "status", "bad_body", "timeout", "late", "network"}
AudioLens == {1, MAX_AUDIO_SIZE_MB * BytesPerMB, MAX_AUDIO_SIZE_MB * BytesPerMB + 1}

\* lines 251-279: the result of the except clause that catches the outcome
VoiceException(outcome) ==
  VoiceResult("error", CASE outcome \in {"timeout", "late"} -> "Request timeout"
                         [] outcome = "network" -> "Network error"
                         [] OTHER -> "Unexpected error")

\* ----------------------------------------------------------------- actions
\* lines 59-119: the input validation and the voice settings
CallVoice(c) ==
  /\ vpc = "idle"
  /\ vcall' = Some(c)
  /\ IF TextCheck(c.text) # "ok"
     THEN /\ vpc' = "done"
          /\ vret' = Some(VoiceResult("error", TextCheck(c.text)))
          /\ UNCHANGED voice_settings
     ELSE /\ vpc' = "tts"
          /\ voice_settings' = Some(VoiceSettings(c.stability, c.similarity_boost,
                                                  c.style, c.use_speaker_boost))
          /\ UNCHANGED vret
  /\ UNCHANGED <<audio_data, vhist, riderVars, heartbeatVars>>

\* lines 126-158: the text-to-speech request and the size check
Tts(outcome, len) ==
  /\ vpc = "tts"
  /\ vhist' = [vhist EXCEPT !.requests = Append(@, "tts"), !.tts = outcome]
  /\ CASE outcome = "ok" /\ ~AudioTooLarge(len) ->
            vpc' = "channel" /\ audio_data' = Some(len) /\ UNCHANGED vret
       [] outcome = "ok" /\ AudioTooLarge(len) ->
            /\ vpc' = "done" /\ audio_data' = Some(len)
            /\ vret' = Some(VoiceResult("error", "Audio file too large"))
       [] outcome = "status" ->
            /\ vpc' = "done" /\ UNCHANGED audio_data
            /\ vret' = Some(VoiceResult("error", "ElevenLabs API error"))
       [] OTHER ->
            /\ vpc' = "done" /\ UNCHANGED audio_data
            /\ vret' = Some(VoiceException(outcome))
  /\ UNCHANGED <<vcall, voice_settings, riderVars, heartbeatVars>>

\* lines 173-193: the channel id, with the request that creates the DM
\* channel when the target is a user
Channel(outcome) ==
  /\ vpc = "channel"
  /\ LET c == vcall[1] IN
     CASE c.target_type = "auto" /\ c.target = "None" ->
            \* target.startswith raises AttributeError
            /\ vpc' = "done" /\ vret' = Some(VoiceException("attribute"))
            /\ UNCHANGED vhist
       [] ~IsDm(c) /\ ~(c.target_type = "auto" /\ c.target = "None") ->
            vpc' = "upload" /\ UNCHANGED <<vret, vhist>>
       [] OTHER ->
            /\ vhist' = [vhist EXCEPT !.requests = Append(@, "dm"), !.dm = outcome]
            /\ CASE outcome = "ok" -> vpc' = "upload" /\ UNCHANGED vret
                 [] outcome = "status" ->
                      /\ vpc' = "done"
                      /\ vret' = Some(VoiceResult("error", "Failed to create DM channel"))
                 [] OTHER -> vpc' = "done" /\ vret' = Some(VoiceException(outcome))
  /\ UNCHANGED <<vcall, voice_settings, audio_data, riderVars, heartbeatVars>>

\* lines 195-249: the upload of the audio as a message of the channel
Upload(outcome) ==
  /\ vpc = "upload"
  /\ vpc' = "done"
  /\ vhist' = [vhist EXCEPT !.requests = Append(@, "upload"), !.upload = outcome,
                            !.posted = IF outcome \in {"ok", "bad_body", "late"}
                                       THEN @ + 1 ELSE @]
  /\ vret' = CASE outcome = "ok" -> Some(VoiceResult("success", "Voice message sent"))
              [] outcome = "status" -> Some(VoiceResult("error", "Failed to send Discord message"))
              [] OTHER -> Some(VoiceException(outcome))
  /\ UNCHANGED <<vcall, voice_settings, audio_data, riderVars, heartbeatVars>>

\* one call of send_voice_message with any arguments, every request ending
\* in any way
NextVoice ==
  \/ vpc = "idle" /\ \E c \in VoiceChoices : CallVoice(c)
  \/ \E o \in TtsOutcomes, len \in AudioLens : Tts(o, len)
  \/ \E o \in DmOutcomes : Channel(o)
  \/ \E o \in UploadOutcomes : Upload(o)

\* the state before the call; the timeout of the robot tool, which this tool
\* does not read, has one value
InitOther == Init /\ COMMAND_TIMEOUT = TicksPerSecond * MaxTimeoutS

SpecVoice == InitOther /\ [][NextVoice]_vars

\* =========================================================== send_heartbeat
HeartbeatResult(status, message) == [status |-> status, message |-> message]

\* ------------------------------------------------------------------ inputs
\* DISCORD_BOT_TOKEN: set, empty, or the placeholder of the template
Tokens == {"set", "missing", "placeholder"}
\* TIMEZONE names a zone ZoneInfo knows, or it does not
Timezones == {"known", "unknown"}
HeartbeatCall(token, timezone, target, target_type, whisper, include_context) ==
  [token |-> token, timezone |-> timezone, target |-> target, target_type |-> target_type,
   whisper |-> whisper, include_context |-> include_context]
HeartbeatChoices ==
  {HeartbeatCall(tk, tz, tg, tt, w, ctx) :
     tk \in Tokens, tz \in Timezones, tg \in {None, Some("id")},
     tt \in {"user", "channel"}, w \in {None, Some("whisper")}, ctx \in BOOLEAN}

\* how _get_spotify_now_playing may go: credentials missing; the token
\* request or the player request raising, or returning another status than
\* 200; 204 or a body without an item; a body that raises when read; a track
SpotifyOutcomes == {"unconfigured", "token_raises", "token_status", "player_raises",
                    "player_204", "player_status", "no_item", "bad_body", "track"}
\* how _get_weather may go: no API key; the request raising or returning
\* another status than 200; a body that raises when read; the weather
WeatherOutcomes == {"unconfigured", "raises", "status", "bad_body", "weather"}
\* how a request to Discord may go (see the voice message tool)
HeartbeatDmOutcomes == {"ok", "status", "bad_body", "timeout", "network"}
HeartbeatPostOutcomes == {"ok", "status", "bad_body", "timeout", "network"}

\* lines 169-228: the requests made, and the value returned
SpotifyRequests(o) ==
  CASE o = "unconfigured" -> <<>>
    [] o \in {"token_raises", "token_status"} -> <<"spotify_token">>
    [] OTHER -> <<"spotify_token", "spotify_player">>
get_spotify_now_playing(o) == IF o = "track" THEN Some("track") ELSE None

\* lines 231-256: the requests made, and the value returned
WeatherRequests(o) == IF o = "unconfigured" THEN <<>> ELSE <<"weather">>
get_weather(o) == IF o = "weather" THEN Some("weather") ELSE None

\* lines 72-74: the target the message goes to
TargetType(c) == IF c.target = None THEN "user" ELSE c.target_type

\* lines 141-150: the whisper and the closing are added to the parts
message_content(parts, c) ==
  (IF c.whisper # None THEN Append(parts, "whisper") ELSE parts) \o <<"closing">>

\* lines 162-166
HeartbeatFailed == HeartbeatResult("error", "Failed to send heartbeat")

\* ----------------------------------------------------------------- actions
\* lines 153-158 and 259-281: _send_discord_message is called with the
\* message made of the parts; its first request is the one for the DM channel
\* when the target is a user, the one that posts the message otherwise
CallSend(parts) ==
  /\ heartbeat_parts' = message_content(parts, hcall'[1])
  /\ hpc' = IF TargetType(hcall'[1]) = "user" THEN "dm" ELSE "post"
  /\ UNCHANGED hret

\* lines 61-121: the configuration, the head of the message and the time
CallHeartbeat(c) ==
  /\ hpc = "idle"
  /\ hcall' = Some(c)
  /\ LET head == <<"header", "temperature", "rhythm">> IN
     CASE c.token # "set" ->
            /\ hpc' = "done" /\ UNCHANGED <<heartbeat_parts, hhist>>
            /\ hret' = Some(HeartbeatResult("error", "Discord bot token not configured"))
       [] c.token = "set" /\ ~c.include_context ->
            CallSend(head) /\ hhist' = [hhist EXCEPT !.sends = @ + 1]
       [] c.token = "set" /\ c.include_context /\ c.timezone = "unknown" ->
            \* ZoneInfo(TIMEZONE) raises
            /\ hpc' = "done" /\ heartbeat_parts' = head /\ hret' = Some(HeartbeatFailed)
            /\ UNCHANGED hhist
       [] OTHER ->
            /\ hpc' = "spotify" /\ heartbeat_parts' = Append(head, "time")
            /\ UNCHANGED <<hret, hhist>>
  /\ UNCHANGED <<riderVars, voiceVars>>

\* lines 123-131: the Spotify lookup
Spotify(o) ==
  /\ hpc = "spotify"
  /\ hpc' = "weather"
  /\ heartbeat_parts' = Append(heartbeat_parts,
                               IF get_spotify_now_playing(o) # None THEN "now_playing"
                                                                   ELSE "spotify_silent")
  /\ hhist' = [hhist EXCEPT !.spotify = o, !.requests = @ \o SpotifyRequests(o)]
  /\ UNCHANGED <<hcall, hret, riderVars, voiceVars>>

\* the weather lookup whose failure ends the call
WeatherFailureEndsCall(o) ==
  /\ hpc = "weather"
  /\ hhist' = [hhist EXCEPT !.weather = o, !.requests = @ \o WeatherRequests(o),
                            !.sends = IF get_weather(o) # None THEN @ + 1 ELSE @]
  /\ UNCHANGED hcall
  /\ IF get_weather(o) # None
     THEN CallSend(Append(heartbeat_parts, "weather"))
     ELSE hpc' = "done" /\ hret' = Some(HeartbeatFailed) /\ UNCHANGED heartbeat_parts
  /\ UNCHANGED <<riderVars, voiceVars>>

\* lines 133-158: the weather lookup, the rest of the message, and the call
\* of _send_discord_message
Weather(o) ==
  /\ hpc = "weather"
  /\ hhist' = [hhist EXCEPT !.weather = o, !.requests = @ \o WeatherRequests(o),
                            !.sends = @ + 1]
  /\ UNCHANGED hcall
  /\ CallSend(IF get_weather(o) # None THEN Append(heartbeat_parts, "weather")
                                       ELSE heartbeat_parts)
  /\ UNCHANGED <<riderVars, voiceVars>>

\* lines 267-281: the request for the DM channel
SendDm(o) ==
  /\ hpc = "dm"
  /\ hhist' = [hhist EXCEPT !.requests = Append(@, "dm"),
                            !.sent = IF o = "ok" THEN @ ELSE Some(o)]
  /\ CASE o = "ok" -> hpc' = "post" /\ UNCHANGED hret
       [] o = "status" ->
            hpc' = "done" /\ hret' = Some(HeartbeatResult("error", "Failed to create DM"))
       [] OTHER -> hpc' = "done" /\ hret' = Some(HeartbeatFailed)
  /\ UNCHANGED <<hcall, heartbeat_parts, riderVars, voiceVars>>

\* lines 283-300 and 160: the request that posts the message, and the return
SendPost(o) ==
  /\ hpc = "post"
  /\ hpc' = "done"
  /\ hhist' = [hhist EXCEPT !.requests = Append(@, "post"), !.sent = Some(o)]
  /\ hret' = CASE o = "ok" -> Some(HeartbeatResult("success", "Heartbeat sent"))
              [] o = "status" -> Some(HeartbeatResult("error", "Failed to send"))
              [] OTHER -> Some(HeartbeatFailed)
  /\ UNCHANGED <<hcall, heartbeat_parts, riderVars, voiceVars>>

\* one call of send_heartbeat with any arguments and configuration, every
\* lookup and every request ending in any way
NextHeartbeat ==
  \/ \E c \in HeartbeatChoices : CallHeartbeat(c)
  \/ \E o \in SpotifyOutcomes : Spotify(o)
  \/ \E o \in WeatherOutcomes : Weather(o)
  \/ \E o \in HeartbeatDmOutcomes : SendDm(o)
  \/ \E o \in HeartbeatPostOutcomes : SendPost(o)

SpecHeartbeat == InitOther /\ [][NextHeartbeat]_vars

\* ================================================================== claims
\* the messages after the command message
After == (command_msg_id + 1)..Len(chan)
\* this step is a GET of the wait, and it returned status 200 / it failed
GoodPoll == pc = "poll" /\ hist'.polls = hist.polls + 1 /\ hist'.lastOk
BadPoll == pc = "poll" /\ hist'.polls = hist.polls + 1 /\ ~hist'.lastOk
\* the GET of this step was made before the deadline
BeforeDeadline == now - start_time < COMMAND_TIMEOUT
\* the results that come from a message of the channel
Matched == {"Success", "Degraded", "RemoteError"}

\* C1 (as claimed): a GET that succeeds before the deadline, made when a
\* success message with the request id of the command and a payload that
\* decodes stands after the command message, ends the wait with Success,
\* however many messages of unrelated traffic are on the channel.  (No other
\* message carries the request id; the payload that does not decode is C4.)
C1_ResponseAmongTraffic ==
  [][ ( /\ GoodPoll
        /\ BeforeDeadline
        /\ \E k \in After :
             /\ chan[k].resp = request_id /\ chan[k].body = "ok"
             /\ \A j \in After \ {k} : chan[j].resp # request_id /\ chan[j].err # request_id )
      => (pc' = "done" /\ ret'.kind = "Success") ]_vars

\* C2: a result that comes from a message comes from one that carries the
\* tag with the request id of the command: the response tag for a success,
\* the error tag for an error.
C2_OnlyOwnRequestId ==
  (pc = "done" /\ ret.kind \in Matched) =>
     /\ ret.src \in 1..Len(chan)
     /\ ret.kind \in {"Success", "Degraded"} => chan[ret.src].resp = request_id
     /\ ret.kind = "RemoteError" => chan[ret.src].err = request_id

\* C2 witness: a success was returned although a message with the tag of
\* another request id stood after the command message
C2_Witness ==
  /\ pc = "done"
  /\ ret.kind = "Success"
  /\ \E j \in After : chan[j].resp = ForeignRid \/ chan[j].err = ForeignRid

\* no message of the channel carries the request id of the command
NoMatchingFrame ==
  \A k \in 1..Len(chan) : chan[k].resp # request_id /\ chan[k].err # request_id

\* C3 (as claimed): with no matching message, the dispatch whose POST
\* succeeded returns Timeout, not before COMMAND_TIMEOUT and not later than
\* COMMAND_TIMEOUT plus one poll interval after the wait began.
C3_TimeoutWithinOneInterval ==
  (pc = "done" /\ hist.sent = "ok" /\ NoMatchingFrame) =>
     /\ ret.kind = "Timeout"
     /\ now - start_time >= COMMAND_TIMEOUT
     /\ now - start_time <= COMMAND_TIMEOUT + POLL_INTERVAL

\* C3 (amended): with no matching message, the dispatch whose POST succeeded
\* returns Timeout, not before COMMAND_TIMEOUT after the wait began, and
\* less than one poll interval plus the time the last GET took after
\* COMMAND_TIMEOUT.
C3_TimeoutAfterLastPoll ==
  /\ []( (pc = "done" /\ hist.sent = "ok" /\ NoMatchingFrame) =>
            (ret.kind = "Timeout" /\ now - start_time >= COMMAND_TIMEOUT) )
  /\ [][ (pc' = "done" /\ ret'.kind = "Timeout") =>
            /\ now' - start_time' >= COMMAND_TIMEOUT
            /\ pc = "poll" =>
                 now' - start_time < COMMAND_TIMEOUT + POLL_INTERVAL + (now' - now) ]_vars

\* C3 witness: a Timeout returned later than one poll interval after the
\* deadline
C3_Witness ==
  /\ pc = "done"
  /\ ret.kind = "Timeout"
  /\ NoMatchingFrame
  /\ now - start_time > COMMAND_TIMEOUT + POLL_INTERVAL

\* C4 (as claimed): a successful GET whose page holds a message with the
\* response tag of the request id (and none with its error tag) ends the
\* wait on such a message: with its payload when that decodes, with the
\* degraded success when it does not decode or when there is no fenced block.
C4_SuccessMarkerEndsWait ==
  [][ ( /\ GoodPoll
        /\ Len(chan) - command_msg_id <= PAGE_LIMIT
        /\ \E k \in After : chan[k].resp = request_id
        /\ \A k \in After : chan[k].err # request_id )
      => /\ pc' = "done"
         /\ ret'.kind \in {"Success", "Degraded"}
         /\ ret'.src \in After
         /\ chan[ret'.src].resp = request_id
         /\ ret'.kind = "Degraded" <=> chan[ret'.src].body \in {"none", "bad"} ]_vars

\* C5 (as claimed): the runner takes up every step of a sequence that is not
\* empty, in input order, and results holds one entry per step, whose index
\* is the place of the step in the input.
C5_EveryStepRecorded ==
  (call.action = "sequence" /\ pc \in {"done", "raised"} /\ call.sequence.steps # <<>>) =>
     /\ hist.attempted = [k \in 1..total_actions |-> k - 1]
     /\ Len(results) = total_actions
     /\ \A k \in 1..Len(results) : results[k].index = k - 1

\* C6: a POST that fails ends the dispatch at once with an error result:
\* no GET is made and the POST is not made again.
C6_SendFailureIsFinal ==
  hist.sent \in {"status", "network", "network_posted"} =>
     /\ pc = "done"
     /\ ret.kind = "SendError"
     /\ ret.status = "error"
     /\ hist.polls = 0
     /\ hist.sends = 1

\* C6 witness: the POST came back with a status other than 200 and 201
C6_Witness == pc = "done" /\ hist.sent = "status" /\ ret.kind = "SendError"

\* a message the wait ends on: the error tag with the request id, or the
\* response tag with the request id and a fenced block
Recognised(f) == f.err = request_id \/ (f.resp = request_id /\ f.body # "none")

\* C7: a GET that fails does not end the wait and does not change the
\* result: the next GET follows one poll interval after it returned, or the
\* deadline has passed and the result is Timeout; a message the wait ends
\* on, seen by a later GET that succeeds before the deadline, still ends
\* it; a result that comes from no message is the Timeout, past the deadline.
C7_FailedPollsAbsorbed ==
  /\ [][ BadPoll =>
           \/ /\ pc' = "poll"
              /\ ret' = ret
              /\ now' - now \in { d + POLL_INTERVAL : d \in Durations }
           \/ /\ pc' = "done"
              /\ ret'.kind = "Timeout"
              /\ now' - start_time >= COMMAND_TIMEOUT ]_vars
  /\ [][ ( /\ GoodPoll
           /\ BeforeDeadline
           /\ hist.badPolls > 0
           /\ Len(chan) - command_msg_id <= PAGE_LIMIT
           /\ \E k \in After : Recognised(chan[k]) )
         => /\ pc' = "done"
            /\ ret'.kind \in Matched
            /\ ret'.src \in After
            /\ Recognised(chan[ret'.src]) ]_vars
  /\ []( (pc = "done" /\ hist.sent = "ok") =>
            \/ ret.kind \in Matched
            \/ ret.kind = "Timeout" /\ now - start_time >= COMMAND_TIMEOUT )

\* C7 witness: a result that came from a message, after a GET that failed
C7_Witness == pc = "done" /\ ret.kind \in Matched /\ hist.badPolls > 0

\* C8: a single action that is not in the action table gives the error that
\* lists the names of the table, and nothing is posted and nothing is polled.
C8_UnknownActionNoTransport ==
  (call.action \notin {ActionNames[k] : k \in 1..Len(ActionNames)}
                        \cup {"", "list_actions", "sequence"}) =>
     /\ pc = "done"
     /\ ret.kind = "ActionNotFound"
     /\ ret.status = "error"
     /\ ret.available = ActionNames
     /\ hist.sends = 0
     /\ hist.polls = 0
     /\ \A k \in 1..Len(chan) : chan[k].cmd = NoRid

\* C8 witness: the call of "fly" has returned
C8_Witness == pc = "done" /\ call.action = "fly"

\* C9: the sequence action with a missing sequence, with one that is no
\* list, or with the empty list gives the pre-flight error, and no command
\* is posted.
C9_EmptySequencePreflight ==
  (call.action = "sequence" /\ (call.sequence.kind # "list" \/ call.sequence.steps = <<>>)) =>
     /\ pc = "done"
     /\ ret.kind = "Preflight"
     /\ ret.status = "error"
     /\ hist.sends = 0
     /\ \A k \in 1..Len(chan) : chan[k].cmd = NoRid

\* C9 witness: the sequence action was called with the empty list
C9_Witness ==
  pc = "done" /\ call.action = "sequence" /\ call.sequence.kind = "list"
    /\ call.sequence.steps = <<>>

\* the commands posted whose result is not yet in results
Outstanding ==
  hist.sends - Cardinality({ k \in 1..Len(results) :
                               results[k].kind \notin {"ActionNotFound", "NoAction"} })

\* C10: in a run of the sequence action at most one command is outstanding;
\* when the command of a step is about to be posted, the results of all the
\* steps before it are in results.
C10_OneOutstanding ==
  call.action = "sequence" =>
     /\ Outstanding \in {0, 1}
     /\ pc = "send" => (Outstanding = 0 /\ Len(results) = i)
     /\ pc = "poll" => (Outstanding = 1 /\ Len(results) = i)

\* C10 witness: the command of a later step is waited for
C10_Witness == call.action = "sequence" /\ pc = "poll" /\ i >= 1 /\ hist.sends >= 2
\* C11 (as claimed): a sequence of n steps run with delay_between > 0 that
\* returns its summary has made n-1 pauses, whatever the outcome of each step.
C11_DelaysBetweenSteps ==
  (call.action = "sequence" /\ pc = "done" /\ ret.kind = "Summary" /\ call.delay_between > 0) =>
     hist.delays = total_actions - 1
\* C12: the summary of a sequence that is not empty has status "success"
\* exactly when every step succeeded and "partial" when some succeeded and
\* some failed; it is never "error": the sequence action gives an error
\* status on the pre-flight check only.
C12_SummaryStatus ==
  /\ (call.action = "sequence" /\ ret.status = "error") => ret.kind = "Preflight"
  /\ (call.action = "sequence" /\ pc = "done" /\ ValidSequence(call.sequence)) =>
       LET ok == { k \in 1..Len(ret.results) : ret.results[k].status = "success" } IN
       /\ ret.kind = "Summary"
       /\ Len(ret.results) = total_actions
       /\ ret.status = "success" <=> Cardinality(ok) = total_actions
       /\ (ok # {} /\ Cardinality(ok) < total_actions) => ret.status = "partial"
       /\ ret.status \in {"success", "partial"}

\* C12 witness: a summary of a sequence in which one step succeeded and
\* another failed
C12_Witness ==
  /\ call.action = "sequence" /\ pc = "done" /\ ret.kind = "Summary"
  /\ \E j, k \in 1..Len(ret.results) :
       ret.results[j].status = "success" /\ ret.results[k].status # "success"
\* C13 (as claimed): no exception leaves rider_pi_tool, and what a call
\* returns is an object with a status field.
C13_StatusAlways ==
  /\ pc # "raised"
  /\ pc = "done" => (ret.isDict /\ ret.status \in {"success", "partial", "error"})
\* C14 (as claimed): two commands on the channel whose waits overlap carry
\* different request ids, and a success the wait ends on is the bot's answer
\* to the command of this call.
C14_UniqueRequestIds ==
  /\ COMMAND_TIMEOUT > 0 =>
       \A j, k \in 1..Len(chan) :
          (j # k /\ chan[j].cmd # NoRid /\ chan[k].cmd # NoRid) => chan[j].cmd # chan[k].cmd
  /\ (pc = "done" /\ ret.kind = "Success") => <<ret.src, command_msg_id>> \in hist.replyTo
\* the command of the action now in hand has been posted, as message SentFrame
JustSent ==
  /\ hist.sent = "ok"
  /\ pc = "poll" \/ (pc = "done" /\ call.action # "sequence")
SentFrame == chan[command_msg_id]
\* v brought into lo..hi
Clamp(lo, hi, v) == Min(hi, Max(lo, v))

\* C15: the command carries the numeric parameter the action takes brought
\* into its range: height into 75..115 for adjust_height, roll into -17..17
\* for adjust_roll, period into 0..4 s for periodic_squat and periodic_shake.
C15_ParametersClamped ==
  JustSent =>
     /\ (CurrentAction = "adjust_height" /\ Current.height # None) =>
          SentFrame.args.height = Some(Clamp(75, 115, Current.height[1]))
     /\ (CurrentAction = "adjust_roll" /\ Current.roll # None) =>
          SentFrame.args.roll = Some(Clamp(-17, 17, Current.roll[1]))
     /\ (CurrentAction \in {"periodic_squat", "periodic_shake"} /\ Current.period # None) =>
          SentFrame.args.period = Some(Clamp(0, 40, Current.period[1]))

\* C15 witness: adjust_height was called with height 500 and sent with 115
C15_Witness ==
  /\ JustSent /\ CurrentAction = "adjust_height"
  /\ Current.height = Some(500)
  /\ SentFrame.args.height = Some(115)
\* the keys an argument dict may hold, and the one an action takes
Params == {"height", "roll", "enabled", "period"}
Accepted(a) ==
  CASE a = "adjust_height" -> "height"
    [] a = "adjust_roll" -> "roll"
    [] a = "balance_mode" -> "enabled"
    [] a \in {"periodic_squat", "periodic_shake"} -> "period"
    [] OTHER -> ""

\* C16: whatever height, roll, enabled and period a registered action is
\* called with, the call does not fail: its command is posted, for the
\* action's tool, with arguments that have the keys of the action's defaults
\* and, but for the parameter the action takes, the default values.
C16_OtherParametersIgnored ==
  /\ pc # "raised"
  /\ (pc = "done" /\ call.action \in Registered) =>
        (hist.sends = 1 /\ ret.kind \in {"Success", "Timeout"})
  /\ JustSent =>
       /\ SentFrame.tool = ToolOf(CurrentAction)
       /\ \A f \in Params :
            /\ SentFrame.args[f] = None <=> DefaultArgs(CurrentAction)[f] = None
            /\ f # Accepted(CurrentAction) => SentFrame.args[f] = DefaultArgs(CurrentAction)[f]

\* C16 witness: reset, called with all four parameters, was sent without
\* arguments
C16_Witness ==
  /\ JustSent /\ CurrentAction = "reset"
  /\ \A f \in Params : Current[f] # None
  /\ SentFrame.args = NoArgs
\* the results a wait ends with
Terminal == Matched \cup {"Timeout"}

\* C17: a dispatch whose POST succeeded waits (or is past its deadline at
\* once), and the wait ends: with the result of a matched success message,
\* of a matched error message, or with the Timeout.  Once there is a result
\* it stays, and no GET is made any more.
C17_WaitEndsOnce ==
  /\ [][ (pc = "send" /\ hist'.sent = "ok") =>
            (pc' = "poll" \/ (pc' = "done" /\ ret'.kind = "Timeout")) ]_vars
  /\ (pc = "poll") ~> (pc = "done" /\ ret.kind \in Terminal)
  /\ []( (pc = "done" /\ hist.sent = "ok") => ret.kind \in Terminal )
  /\ [][ ret # NoRet => (ret' = ret /\ hist'.polls = hist.polls) ]_vars

\* C17 witness: a wait that ended on a message after more than one GET
C17_Witness == pc = "done" /\ ret.kind \in Matched /\ hist.polls >= 2
\* message k is the first message of the page of this step's GET that
\* carries the error tag of the request id, no message before it in the page
\* having ended the wait
FirstErrorOfPage(p) ==
  /\ chan[hist'.page[p]].err = request_id
  /\ \A q \in 1..(p - 1) : ~Recognised(chan[hist'.page[q]])

\* C18 (as claimed): a GET whose page holds a message with the error tag of
\* the request id, no earlier message of the page having ended the wait,
\* ends the wait with the error result that carries that message.
C18_ErrorMarkerGivesError ==
  [][ GoodPoll =>
        \A p \in 1..Len(hist'.page) :
           FirstErrorOfPage(p) =>
              /\ pc' = "done"
              /\ ret'.kind = "RemoteError" /\ ret'.status = "error"
              /\ ret'.src = hist'.page[p] ]_vars

\* C18 (amended): the same, for a message that does not itself end the wait
\* as a success, that is, does not hold the response tag of the request id
\* with a fenced block as well.
C18_ErrorMarkerWithoutSuccess ==
  [][ GoodPoll =>
        \A p \in 1..Len(hist'.page) :
           LET f == chan[hist'.page[p]] IN
           (FirstErrorOfPage(p) /\ ~(f.resp = request_id /\ f.body # "none")) =>
              /\ pc' = "done"
              /\ ret'.kind = "RemoteError" /\ ret'.status = "error"
              /\ ret'.src = hist'.page[p] ]_vars

\* C18 witness: the wait ended with the error of a message that stood in
\* the page behind another message with a tag of the request id
C18_Witness ==
  /\ pc = "done" /\ ret.kind = "RemoteError"
  /\ \E p \in 2..Len(hist.page) :
       /\ hist.page[p] = ret.src
       /\ chan[hist.page[1]].resp = request_id
\* C19: the action table stays as the module created it, through single
\* calls and the steps of a sequence with any parameters; a command built
\* without the parameter its action takes carries the action's tool and its
\* default arguments, whatever earlier commands were built with.
C19_TableNeverMutated ==
  /\ [](ACTION_MAP = ActionTable)
  /\ [][ (pc = "send" /\ Len(chan') = Len(chan) + 1) =>
            LET f == chan'[Len(chan')]
                a == CurrentAction
            IN (Accepted(a) = "" \/ Current[Accepted(a)] = None) =>
                  (f.tool = ToolOf(a) /\ f.args = DefaultArgs(a)) ]_vars

\* C19 witness: in a sequence, adjust_height was sent with height 100, and
\* then adjust_height without a height was sent with the default 85
C19_Witness ==
  /\ call.action = "sequence" /\ pc = "poll" /\ i >= 1
  /\ CurrentAction = "adjust_height" /\ Current.height = None
  /\ SentFrame.args.height = Some(85)
  /\ \E k \in 1..(command_msg_id - 1) :
       chan[k].tool = "rider_pi_adjust_height" /\ chan[k].args.height = Some(100)
\* what the code makes of message k when it reads it, the place of the
\* message left aside
Decoded(k) == [ScanFrame(k, chan[k], request_id) EXCEPT !.src = 0]

C21_OnlyAfterCommand ==
  /\ (pc = "done" /\ ret.kind \in Matched) => ret.src > command_msg_id
  /\ (pc = "done" /\ hist.sent = "ok"
        /\ \A k \in After : chan[k].resp # request_id /\ chan[k].err # request_id)
       => ret.kind = "Timeout"

\* C21 witness: the wait timed out although a success message with the
\* request id and a payload that decodes stood before the command message
C21_Witness ==
  /\ pc = "done" /\ ret.kind = "Timeout" /\ hist.polls >= 1 /\ hist.lastOk
  /\ \E k \in 1..(command_msg_id - 1) :
       (chan[k].resp = request_id /\ chan[k].body = "ok") \/ chan[k].err = request_id
\* C22: in a sequence, the result a step takes from a message is taken from
\* the bot's answer to the command message of that step, never from the
\* answer to the command of an earlier step, and the message carries the
\* request id of the step.
C22_NoStaleResponse ==
  [][ (call.action = "sequence" /\ hist'.polls = hist.polls + 1
         /\ Len(results') = Len(results) + 1) =>
        LET e == results'[Len(results')] IN
        e.kind \in Matched =>
           /\ <<e.src, command_msg_id>> \in hist.replyTo
           /\ chan[e.src].resp = request_id
           /\ chan[command_msg_id].cmd = request_id ]_vars

\* C22 witness: the first step timed out, its answer came after the command
\* of the second step was posted, and the second step succeeded on its own
\* answer, which stood behind the late one
C22_Witness ==
  /\ call.action = "sequence" /\ Len(results) >= 2
  /\ results[1].kind = "Timeout" /\ results[2].kind = "Success"
  /\ \E a, b \in hist.replyTo :
       /\ b[1] = results[2].src
       /\ a[2] < b[2] /\ b[2] < a[1] /\ a[1] < b[1]
\* the command messages on the channel
CommandFrames == { k \in 1..Len(chan) : chan[k].cmd # NoRid }

\* C23: the dispatch of a step makes one POST and puts at most one message,
\* the command, on the channel; a GET of the wait posts nothing; no message
\* of the channel is ever changed or removed; a sequence of n steps makes at
\* most n POSTs and puts at most n messages on the channel.
C23_OneSendPerDispatch ==
  /\ [][ pc = "send" =>
            /\ hist'.sends = hist.sends + 1
            /\ Len(chan') <= Len(chan) + 1
            /\ pc' # "send" ]_vars
  /\ [][ hist'.polls = hist.polls + 1 => (chan' = chan /\ hist'.sends = hist.sends) ]_vars
  /\ [][ Len(chan') >= Len(chan) /\ \A k \in 1..Len(chan) : chan'[k] = chan[k] ]_vars
  /\ []( call.action = "sequence" =>
            /\ Cardinality(CommandFrames) <= hist.sends
            /\ hist.sends <= Len(hist.attempted)
            /\ hist.sends <= total_actions )

\* C23 witness: a sequence of three registered steps has posted its three
\* commands, and the bot's answers stand between them
C23_Witness ==
  /\ call.action = "sequence" /\ pc = "done" /\ total_actions = 3
  /\ hist.sends = 3 /\ Cardinality(CommandFrames) = 3 /\ Len(chan) > 3
\* the most GETs one wait makes: COMMAND_TIMEOUT / 1.5 s, rounded up
MaxPolls ==
  IF COMMAND_TIMEOUT <= 0 THEN 0
  ELSE (COMMAND_TIMEOUT + POLL_INTERVAL - 1) \div POLL_INTERVAL

\* C24: every GET of the wait comes after a sleep of one poll interval: the
\* first one poll interval or more after the POST returned, each further
\* one a poll interval or more after the one before; a wait makes at most
\* COMMAND_TIMEOUT / 1.5 s (rounded up) GETs, and none when COMMAND_TIMEOUT
\* is zero or negative.
C24_SleepBeforeEveryPoll ==
  /\ []( pc = "poll" =>
            /\ now >= start_time + POLL_INTERVAL * (hist.polls + 1)
            /\ hist.polls + 1 <= MaxPolls )
  /\ [](hist.polls <= MaxPolls)
  /\ [][ (pc = "send" /\ pc' = "poll") => now' >= now + POLL_INTERVAL ]_vars
  /\ [][ (pc = "poll" /\ pc' = "poll" /\ hist'.polls = hist.polls + 1) =>
            now' >= now + POLL_INTERVAL ]_vars

\* C24 witness: a wait with a positive COMMAND_TIMEOUT that made as many
\* GETs as it may, and timed out
C24_Witness ==
  /\ pc = "done" /\ ret.kind = "Timeout" /\ COMMAND_TIMEOUT > 0
  /\ hist.polls = MaxPolls /\ hist.polls >= 2
\* the entries of res with status "success"
Succeeded(res) == { k \in 1..Len(res) : res[k].status = "success" }

\* C25: in the summary of a sequence successful + failed = total_actions =
\* the number of entries of results, successful is the number of entries
\* whose status is "success" and failed the number of the others; while the
\* sequence runs the two counters add up to the entries recorded so far.
C25_CountsAddUp ==
  /\ call.action = "sequence" =>
       /\ successful + failed = Len(results)
       /\ successful = Cardinality(Succeeded(results))
  /\ (call.action = "sequence" /\ pc = "done" /\ ret.kind = "Summary") =>
       /\ ret.successful + ret.failed = ret.total_actions
       /\ ret.total_actions = Len(ret.results)
       /\ ret.total_actions = Len(call.sequence.steps)
       /\ ret.successful = Cardinality(Succeeded(ret.results))
       /\ ret.failed = Len(ret.results) - Cardinality(Succeeded(ret.results))

\* C25 witness: a summary in which a step answered by a success message
\* whose payload carries another status is counted as failed
C25_Witness ==
  /\ call.action = "sequence" /\ pc = "done" /\ ret.kind = "Summary"
  /\ ret.successful >= 1
  /\ \E k \in 1..Len(ret.results) :
       ret.results[k].kind = "Success" /\ ret.results[k].status = "error"
\* the entry recorded for a step at index k that has no action
NoActionEntry(k) == [Result("NoAction", "error", TRUE, 0) EXCEPT !.index = k, !.action = "unknown"]

\* C26: a step of a sequence without an action is recorded as failed, with
\* the action "unknown" and its own index; nothing is posted for it; the
\* runner goes on to the step after it, or to the summary after the last.
C26_MalformedStepRecorded ==
  [][ (pc = "seq_step" /\ call.sequence.steps[i + 1].action = None) =>
        /\ results' = Append(results, NoActionEntry(i))
        /\ failed' = failed + 1 /\ successful' = successful
        /\ chan' = chan /\ hist'.sends = hist.sends /\ hist'.polls = hist.polls
        /\ IF i + 1 < total_actions
             THEN pc' = "seq_step" /\ i' = i + 1
             ELSE pc' = "done" /\ ret'.kind = "Summary" /\ Len(ret'.results) = total_actions ]_vars

\* C26 witness: the first step had no action, and the step after it was
\* posted and answered
C26_Witness ==
  /\ call.action = "sequence" /\ Len(results) >= 2
  /\ results[1] = NoActionEntry(0)
  /\ results[2].kind = "Success" /\ results[2].index = 1
  /\ hist.sends = 1

\* ------------------------------------------------------ send_voice_message
\* the call returned this status
VoiceReturned(status) == vpc = "done" /\ vret # None /\ vret[1].status = status
\* the upload request was made / a message stands on the channel
Uploaded == \E k \in DOMAIN vhist.requests : vhist.requests[k] = "upload"
WithinSizeLimit == audio_data # None /\ audio_data[1] <= MAX_AUDIO_SIZE_MB * BytesPerMB

\* C27: the upload request is made (and a message posted) only after the
\* text-to-speech request returned 200, the audio is at most 25 MB and, for
\* a user target, the DM channel was created; when one of these steps has
\* failed the call returns status error and nothing was uploaded or posted;
\* success is returned only after the upload returned 200 or 201.
C27_PostOnlyAfterAllSteps ==
  /\ (Uploaded \/ vhist.posted > 0) =>
        /\ vhist.tts = "ok"
        /\ WithinSizeLimit
        /\ IsDm(vcall[1]) => vhist.dm = "ok"
  /\ ( \/ vhist.tts \notin {"none", "ok"}
       \/ (audio_data # None /\ ~WithinSizeLimit)
       \/ vhist.dm \notin {"none", "ok"} ) =>
        VoiceReturned("error") /\ ~Uploaded /\ vhist.posted = 0
  /\ VoiceReturned("success") => vhist.upload = "ok" /\ vhist.posted = 1

\* C27 witness: a voice message of exactly 25 MB was posted to the DM
\* channel created for a user target
C27_Witness ==
  /\ VoiceReturned("success")
  /\ vcall[1].target_type = "user" /\ vhist.dm = "ok"
  /\ audio_data = Some(MAX_AUDIO_SIZE_MB * BytesPerMB)
  /\ vhist.requests = <<"tts", "dm", "upload">>

RECURSIVE SumRuns(_, _, _)
\* the characters of the runs lo..hi that are not NUL
SumRuns(runs, lo, hi) ==
  IF lo > hi THEN 0
  ELSE (IF runs[lo].ch = "NUL" THEN 0 ELSE runs[lo].n) + SumRuns(runs, lo + 1, hi)
\* the length of the text from its first to its last letter, NULs left out
SanitizedLen(runs) ==
  LET letters == {k \in DOMAIN runs : runs[k].ch = "a"}
  IN IF letters = {} THEN 0
     ELSE SumRuns(runs, CHOOSE k \in letters : \A j \in letters : k <= j,
                        CHOOSE k \in letters : \A j \in letters : k >= j)
\* the text is missing, no string, empty or too long after the sanitising
BadText(text) ==
  \/ text.kind # "str"
  \/ SanitizedLen(text.runs) = 0
  \/ SanitizedLen(text.runs) > MAX_TEXT_LENGTH

\* C28: a call whose text is missing, not a string, empty after removing
\* NULs and trimming, or longer than 3000 characters after that, returns an
\* error and makes no request at all.
C28_BadTextNoRequest ==
  (vcall # None /\ BadText(vcall[1].text)) =>
     VoiceReturned("error") /\ vhist.requests = <<>> /\ vhist.posted = 0

\* C28 witness: a text that is 3001 characters long once its NUL characters
\* are gone was refused as too long before any request was made
C28_Witness ==
  /\ VoiceReturned("error") /\ vhist.requests = <<>>
  /\ vret[1].message = "too_long"
  /\ LET runs == vcall[1].text.runs IN
     /\ SanitizedLen(runs) = MAX_TEXT_LENGTH + 1
     /\ \E k \in DOMAIN runs : runs[k].ch = "NUL"

\* the names of the three settings that are numbers
NumberSettings == {"stability", "similarity_boost", "style"}

\* C30 (as claimed): in the request to the text-to-speech service every
\* number setting lies in [0, 1], and every setting the caller did not
\* supply has its documented default.
C30_SettingsClampedOrDefault ==
  vhist.tts # "none" =>
    LET c == vcall[1]
        vs == voice_settings[1]
    IN /\ \A k \in NumberSettings : vs[k] # None => vs[k][1] \in 0..100
       /\ \A k \in DOMAIN DefaultSettings : c[k] = None => vs[k] = DefaultSettings[k]

\* ---------------------------------------------------------- send_heartbeat
\* both lookups were made
LookedUp == hhist.spotify # "none" /\ hhist.weather # "none"
\* the result the send ends with, given how its requests went
SendResult(o) ==
  CASE o = "ok" -> "success"
    [] OTHER -> "error"

\* C29: once the call is at the lookups (the token is configured), neither
\* lookup ends the call, whatever its outcome: after the Spotify lookup the
\* weather lookup follows, after both the send has been called exactly once;
\* the send is never called twice; and what the call returns is decided by
\* how the requests of the send went, success exactly when the message
\* request returned 200 or 201.
C29_LookupsNeverStopHeartbeat ==
  /\ hpc \in {"spotify", "weather"} => hret = None /\ hhist.sends = 0
  /\ hhist.spotify # "none" => hpc \in {"weather", "dm", "post", "done"}
  /\ LookedUp => hhist.sends = 1 /\ hpc \in {"dm", "post", "done"}
  /\ hhist.sends <= 1
  /\ (hpc = "done" /\ LookedUp) =>
        /\ hhist.sent # None /\ hret # None
        /\ hret[1].status = SendResult(hhist.sent[1])
        /\ hret[1].status = "success" <=> hhist.requests[Len(hhist.requests)] = "post"
                                           /\ hhist.sent[1] = "ok"

\* C29 witness: both lookups failed and the heartbeat was sent all the same
C29_Witness ==
  /\ hpc = "done" /\ hret # None /\ hret[1].status = "success"
  /\ hhist.spotify = "token_raises" /\ hhist.weather = "raises"
  /\ hhist.sends = 1
  /\ heartbeat_parts = <<"header", "temperature", "rhythm", "time", "spotify_silent",
                         "whisper", "closing">>
====
